---------------------------- MODULE Spec2Model ----------------------------
(***************************************************************************)
(* DroRE: a regular-expression library that compiles a pattern to a        *)
(* relocation-free instruction list (drore/internal/compiler.py) and runs  *)
(* it on a LIFO frontier of partial matches with (ind, pc) deduplication   *)
(* (drore/internal/execution.py), driven by Pattern.search / Pattern.match *)
(* (drore/internal/pattern.py).                                            *)
(*                                                                         *)
(* Strings (patterns, subjects, group names) are sequences of one-         *)
(* character strings.  Indices into them are 0-based as in the source; the *)
(* 1-based TLA+ sequences are read at index + 1.                           *)
(***************************************************************************)
EXTENDS Integers, Sequences, FiniteSets, TLC

(***************************************************************************)
(* Bounds of the model.                                                    *)
(***************************************************************************)
\* longest subject string drawn in Init
MaxStrLen == 2
\* how far past len(string) a start index given to match/search may lie
MaxOver == 1
\* longest pattern drawn from PatternAlphabet in Init
MaxPatLen == 2
\* longest pattern drawn from ErrAlphabet in CompileInit
MaxErrLen == 3

None == "None"

Last(s) == s[Len(s)]
Front(s) == SubSeq(s, 1, Len(s) - 1)

(***************************************************************************)
(* execution.py: the match trees.                                          *)
(***************************************************************************)
ClosedGroupMatch(group_id, span, sub_matches) ==
    [group_id |-> group_id, span |-> span, sub_matches |-> sub_matches]

OpenGroupMatch(group_id, start_ind, sub_matches) ==
    [group_id |-> group_id, start_ind |-> start_ind, sub_matches |-> sub_matches]

\* a PartialMatch whose group 0 opens at the start of the string
PartialMatch_at_zero(ind, pc) ==
    [ind |-> ind, pc |-> pc, _stack |-> <<>>, _match |-> OpenGroupMatch(0, 0, <<>>)]

\* PartialMatch.__init__
PartialMatch(ind, pc) ==
    [ind |-> ind, pc |-> pc, _stack |-> <<>>, _match |-> OpenGroupMatch(0, ind, <<>>)]

\* PartialMatch.clone: a deep copy, which for a value is the value itself
clone(state) == state

\* PartialMatch._close_current_match
_close_current_match(state) ==
    ClosedGroupMatch(state._match.group_id,
                     <<state._match.start_ind, state.ind>>,
                     state._match.sub_matches)

\* a start_group that opens the group without pushing the current frame
start_group_unpushed(state, group_id) ==
    [state EXCEPT !._match = OpenGroupMatch(group_id, state.ind, <<>>)]

\* PartialMatch.start_group
start_group(state, group_id) ==
    [state EXCEPT !._stack = Append(@, state._match),
                  !._match = OpenGroupMatch(group_id, state.ind, <<>>)]

\* an end_group that puts the closed group before its siblings
end_group_in_front(state) ==
    LET current == _close_current_match(state)
        parent == Last(state._stack)
    IN [state EXCEPT !._stack = Front(@),
                     !._match = [parent EXCEPT !.sub_matches = <<current>> \o @]]

\* PartialMatch.end_group; the caller has checked that _stack is not empty
\* (list.pop() on an empty list raises IndexError)
end_group(state) ==
    LET current == _close_current_match(state)
        parent == Last(state._stack)
    IN [state EXCEPT !._stack = Front(@),
                     !._match = [parent EXCEPT !.sub_matches = Append(@, current)]]

(***************************************************************************)
(* execution.py: ExecutionContext.  A context is a record                  *)
(*   string, _program, _states (the LIFO frontier, top last), _visited,    *)
(*   raised (the exception that escaped an instruction, or None).          *)
(***************************************************************************)
ExecutionContext(string, program) ==
    [string |-> string, _program |-> program, _states |-> <<>>,
     _visited |-> {}, raised |-> None]

\* a queue_state that deduplicates on pc alone
queue_state_by_pc(context, state) ==
    IF \E v \in context._visited : v[2] = state.pc
    THEN [context |-> context, ret |-> FALSE]
    ELSE [context |-> [context EXCEPT !._visited = @ \cup {<<state.ind, state.pc>>},
                                      !._states = Append(@, state)],
          ret |-> TRUE]

\* a queue_state that never looks at the visited set
queue_state_unchecked(context, state) ==
    [context |-> [context EXCEPT !._visited = @ \cup {<<state.ind, state.pc>>},
                                 !._states = Append(@, state)],
     ret |-> TRUE]

\* a queue_state that marks the pc as visited at the next index as well
queue_state_marking_next(context, state) ==
    IF <<state.ind, state.pc>> \in context._visited
    THEN [context |-> context, ret |-> FALSE]
    ELSE [context |-> [context EXCEPT
                          !._visited = @ \cup {<<state.ind, state.pc>>,
                                               <<state.ind + 1, state.pc>>},
                          !._states = Append(@, state)],
          ret |-> TRUE]

\* ExecutionContext.queue_state: the new context and the returned bool
queue_state(context, state) ==
    LET inds == <<state.ind, state.pc>>
    IN IF inds \in context._visited
       THEN [context |-> context, ret |-> FALSE]
       ELSE [context |-> [context EXCEPT !._visited = @ \cup {inds},
                                         !._states = Append(@, state)],
             ret |-> TRUE]

\* ExecutionContext.already_visited
already_visited(context, state, ind_offset, pc_offset) ==
    <<state.ind + ind_offset, state.pc + pc_offset>> \in context._visited

\* ExecutionContext.start_at
start_at(context, ind) == queue_state(context, PartialMatch(ind, 0)).context

\* reading the top of the frontier without removing it
pop_peek(states) == [state |-> Last(states), rest |-> states]

\* list.pop() of the frontier in ExecutionContext.run
pop(states) == [state |-> Last(states), rest |-> Front(states)]

(***************************************************************************)
(* execution.py: the instructions.  An instruction is a record with an op  *)
(* tag and its immediate operands; op_X(operands, context, state) is the   *)
(* effect of the closure the source builds, as the context it leaves.      *)
(***************************************************************************)
Instr(op, ch, offset, prefer_jump, group_id) ==
    [op |-> op, ch |-> ch, offset |-> offset, prefer_jump |-> prefer_jump,
     group_id |-> group_id]

ins_any == Instr("any", "", 0, FALSE, 0)
ins_char(expected) == Instr("char", expected, 0, FALSE, 0)
ins_filter(description) == Instr("filter", description, 0, FALSE, 0)
ins_assert_start == Instr("assert start", "", 0, FALSE, 0)
ins_assert_end == Instr("assert end", "", 0, FALSE, 0)
ins_split(offset, prefer_jump) == Instr("split", "", offset, prefer_jump, 0)
ins_jump(offset) == Instr("jump", "", offset, FALSE, 0)
ins_start_group(group_id) == Instr("start group", "", 0, FALSE, group_id)
ins_end_group == Instr("end group", "", 0, FALSE, 0)

Digits == {"0", "1", "2", "3", "4", "5", "6", "7", "8", "9"}
Letters == {"a", "b", "c", "d", "e", "f", "x", "A", "P", "Z", "G"}
Spaces == {" ", "\t", "\n", "\r"}

\* the predicates compiler.py hands to op_filter, by their description
condition(description, ch) ==
    CASE description = "\\d" -> ch \in Digits
      [] description = "\\D" -> ch \notin Digits
      [] description = "\\s" -> ch \in Spaces
      [] description = "\\S" -> ch \notin Spaces
      [] description = "\\w" -> ch = "_" \/ ch \in Letters \cup Digits
      [] description = "\\W" -> ch # "_" /\ ch \notin Letters \cup Digits

op_any(context, state) ==
    IF state.ind < Len(context.string)
    THEN queue_state(context, [state EXCEPT !.ind = @ + 1]).context
    ELSE context

\* an op_char that moves the cursor back to the start of the string
op_char_rewinding(expected, context, state) ==
    IF state.ind < Len(context.string) /\ context.string[state.ind + 1] = expected
    THEN queue_state(context, [state EXCEPT !.ind = 0]).context
    ELSE context

op_char(expected, context, state) ==
    IF state.ind < Len(context.string) /\ context.string[state.ind + 1] = expected
    THEN queue_state(context, [state EXCEPT !.ind = @ + 1]).context
    ELSE context

op_filter(description, context, state) ==
    IF state.ind < Len(context.string)
       /\ condition(description, context.string[state.ind + 1])
    THEN queue_state(context, [state EXCEPT !.ind = @ + 1]).context
    ELSE context

op_assert_start(context, state) ==
    IF state.ind = 0 THEN queue_state(context, state).context ELSE context

\* an assert_end that holds everywhere but at the end of the string
op_assert_end_before_end(context, state) ==
    IF state.ind < Len(context.string)
    THEN queue_state(context, state).context
    ELSE context

op_assert_end(context, state) ==
    IF state.ind = Len(context.string)
    THEN queue_state(context, state).context
    ELSE context

\* a prefer-jump split that pushes the jump first and the fallthrough on top
op_prefer_jump_pushed_first(offset, context, state) ==
    queue_state(queue_state(context, [state EXCEPT !.pc = @ + offset]).context,
                state).context

\* op_split.op_prefer_jump
op_prefer_jump(offset, context, state) ==
    LET q == queue_state(context, state)
    IN IF q.ret
       THEN IF ~already_visited(q.context, state, 0, offset)
            THEN queue_state(q.context,
                             [clone(state) EXCEPT !.pc = @ + offset]).context
            ELSE q.context
       ELSE queue_state(context, [state EXCEPT !.pc = @ + offset]).context

\* a prefer-default split that explores the jump first
op_prefer_default_jump_first(offset, context, state) ==
    op_prefer_jump(offset, context, state)

\* op_split.op_prefer_default
op_prefer_default(offset, context, state) ==
    LET jumped == [state EXCEPT !.pc = @ + offset]
        q == queue_state(context, jumped)
    IN IF q.ret
       THEN IF ~already_visited(q.context, jumped, 0, -offset)
            THEN queue_state(q.context,
                             [clone(jumped) EXCEPT !.pc = @ - offset]).context
            ELSE q.context
       ELSE queue_state(context, [jumped EXCEPT !.pc = @ - offset]).context

\* an op_split that takes the flag the other way round
op_split_flipped(offset, prefer_jump, context, state) ==
    IF prefer_jump
    THEN op_prefer_default(offset, context, state)
    ELSE op_prefer_jump(offset, context, state)

op_split(offset, prefer_jump, context, state) ==
    IF prefer_jump
    THEN op_prefer_jump(offset, context, state)
    ELSE op_prefer_default(offset, context, state)

op_jump(offset, context, state) ==
    queue_state(context, [state EXCEPT !.pc = @ + offset]).context

\* the queued object is the one start_group then changes in place
op_start_group(group_id, context, state) ==
    LET q == queue_state(context, state)
    IN IF q.ret
       THEN [q.context EXCEPT !._states[Len(q.context._states)] =
                                   start_group(state, group_id)]
       ELSE context

op_end_group(context, state) ==
    LET q == queue_state(context, state)
    IN IF q.ret
       THEN IF state._stack = <<>>
            THEN [q.context EXCEPT !.raised = "IndexError"]
            ELSE [q.context EXCEPT !._states[Len(q.context._states)] =
                                        end_group(state)]
       ELSE context

\* instruction(self, state) in ExecutionContext.run
invoke(instruction, context, state) ==
    CASE instruction.op = "any" -> op_any(context, state)
      [] instruction.op = "char" -> op_char(instruction.ch, context, state)
      [] instruction.op = "filter" -> op_filter(instruction.ch, context, state)
      [] instruction.op = "assert start" -> op_assert_start(context, state)
      [] instruction.op = "assert end" -> op_assert_end(context, state)
      [] instruction.op = "split" ->
             op_split(instruction.offset, instruction.prefer_jump, context, state)
      [] instruction.op = "jump" -> op_jump(instruction.offset, context, state)
      [] instruction.op = "start group" ->
             op_start_group(instruction.group_id, context, state)
      [] instruction.op = "end group" -> op_end_group(context, state)

\* self._program[state.pc]: a negative index counts from the end
fetch(program, at) ==
    IF at >= 0 /\ at < Len(program) THEN <<program[at + 1]>>
    ELSE IF at < 0 /\ -at <= Len(program) THEN <<program[Len(program) + at + 1]>>
    ELSE <<>>

(***************************************************************************)
(* ExecutionContext.run, Pattern.search and Pattern.match as functions of  *)
(* their arguments: the context as the call leaves it and the value        *)
(* returned, <<>> for None.                                                *)
(***************************************************************************)
RECURSIVE run(_)
run_invoked(context) ==
    IF context.raised # None THEN [context |-> context, result |-> <<>>]
    ELSE run(context)

run_popped(context, state) ==
    IF state.pc = Len(context._program)
    THEN IF state._stack # <<>>
         THEN [context |-> [context EXCEPT !.raised = "AssertionError"],
               result |-> <<>>]
         ELSE [context |-> context, result |-> <<_close_current_match(state)>>]
    ELSE IF fetch(context._program, state.pc) = <<>>
    THEN [context |-> [context EXCEPT !.raised = "IndexError"], result |-> <<>>]
    ELSE run_invoked(invoke(fetch(context._program, state.pc)[1], context,
                            [state EXCEPT !.pc = @ + 1]))

\* ExecutionContext.run
run(context) ==
    IF context._states = <<>> THEN [context |-> context, result |-> <<>>]
    ELSE run_popped([context EXCEPT !._states = pop(context._states).rest],
                    pop(context._states).state)

RECURSIVE search_loop(_, _, _)
search_ran(ran, ind, last_ind) ==
    IF ran.context.raised # None \/ ran.result # <<>> THEN ran
    ELSE search_loop(ran.context, ind + 1, last_ind)

\* the for-loop of Pattern.search from ind on
search_loop(context, ind, last_ind) ==
    IF ind > last_ind THEN [context |-> context, result |-> <<>>]
    ELSE search_ran(run(start_at(context, ind)), ind, last_ind)

\* Pattern.search
search(program, string, first_ind, last_ind) ==
    search_loop(ExecutionContext(string, program), first_ind, last_ind)

\* Pattern.match
match(program, string, start_ind) == search(program, string, start_ind, start_ind)


(***************************************************************************)
(* compiler.py imports op_split (called with the offset alone) and         *)
(* op_split_after from execution.py, which holds the two of them as the    *)
(* prefer_jump flag of one op_split.  _compose_alternatives documents the  *)
(* first ("we first explore the split variation before continuing with     *)
(* the program flow"); split_after is the one with the reversed            *)
(* preference.                                                             *)
(***************************************************************************)
split(offset) == ins_split(offset, TRUE)

split_after(offset) == ins_split(offset, FALSE)

(***************************************************************************)
(* compiler.py: the recursive-descent compiler.  Every rule takes the      *)
(* pattern and the compiler's fields (_ind, _groups) and returns the       *)
(* program fragment with the fields as the rule leaves them, or the        *)
(* exception it raises: its class, the position its message gives (-1 when *)
(* the message gives none) and the message's wording.                      *)
(***************************************************************************)
NoError == [kind |-> "", pos |-> 0, reason |-> ""]

GroupDescription(name, pattern_span) == [name |-> name, pattern_span |-> pattern_span]

Return(program, ind, groups) ==
    [program |-> program, ind |-> ind, groups |-> groups, err |-> NoError]

Raise(kind, pos, reason, ind, groups) ==
    [program |-> <<>>, ind |-> ind, groups |-> groups,
     err |-> [kind |-> kind, pos |-> pos, reason |-> reason]]

\* Compiler._peek
_peek(pattern, ind) == IF ind = Len(pattern) THEN None ELSE pattern[ind + 1]

\* Compiler._next: the character returned and _ind afterwards
_next(pattern, ind) ==
    IF ind = Len(pattern)
    THEN [ch |-> None, ind |-> ind]
    ELSE [ch |-> pattern[ind + 1], ind |-> ind + 1]

\* str.find(ch, start) of the pattern: a 0-based index, or -1
RECURSIVE find(_, _, _)
find(pattern, ch, start) ==
    IF start >= Len(pattern) THEN -1
    ELSE IF pattern[start + 1] = ch THEN start
    ELSE find(pattern, ch, start + 1)

HexDigits == <<"0", "1", "2", "3", "4", "5", "6", "7", "8", "9",
               "a", "b", "c", "d", "e", "f">>

\* int(d, 16) of one lowercase hex digit
HexValue(d) == (CHOOSE k \in 1..16 : HexDigits[k] = d) - 1

\* chr(code)
chr(code) ==
    CASE code = 32 -> " "
      [] code = 49 -> "1"
      [] code = 65 -> "A"
      [] code = 97 -> "a"
      [] code = 98 -> "b"
      [] code = 99 -> "c"
      [] code = 100 -> "d"
      [] OTHER -> "chr" \o ToString(code)

\* the first loop of Compiler._compose_alternatives, j counting down
RECURSIVE _append_jumps(_, _, _)
\* a first loop whose jumps skip the next branch only
_append_jumps_over_one(branches, j, jump_distance) ==
    IF j < 0 THEN branches
    ELSE _append_jumps([branches EXCEPT ![j + 1] =
                            Append(@, ins_jump(Len(branches[j + 2])))],
                       j - 1, 0)

_append_jumps(branches, j, jump_distance) ==
    IF j < 0 THEN branches
    ELSE LET d == jump_distance + Len(branches[j + 2])
         IN _append_jumps([branches EXCEPT ![j + 1] = Append(@, ins_jump(d))],
                          j - 1, d)

\* the second loop of Compiler._compose_alternatives and the jump after it
RECURSIVE _head_splits(_, _, _, _)
_head_splits(branches, j, jump_distance, program) ==
    IF j >= Len(branches) - 1
    THEN Append(program, ins_jump(jump_distance))
    ELSE _head_splits(branches, j + 1, jump_distance + Len(branches[j + 1]),
                      Append(program,
                             split(Len(branches) - 1 - j + jump_distance)))

RECURSIVE _extend_all(_, _)
_extend_all(program, branches) ==
    IF branches = <<>> THEN program
    ELSE _extend_all(program \o Head(branches), Tail(branches))

\* Compiler._compose_alternatives
_compose_alternatives(branches) ==
    IF Len(branches) = 1 THEN branches[1]
    ELSE LET jumped == _append_jumps(branches, Len(branches) - 2, 0)
         IN _extend_all(_head_splits(jumped, 0, 0, <<>>), jumped)

\* Compiler._compile_escape
_compile_escape(pattern, ind0, groups) ==
    LET n == _next(pattern, ind0)
        ch == n.ch
        ind == n.ind
        lit(c) == Return(<<ins_char(c)>>, ind, groups)
    IN CASE ch = None ->
              Raise("ValueError", ind, "backslash last in pattern", ind, groups)
         [] ch = "A" -> Return(<<ins_assert_start>>, ind, groups)
         [] ch = "Z" -> Return(<<ins_assert_end>>, ind, groups)
         [] ch \in {"d", "D", "s", "S", "w", "W"} ->
              Return(<<ins_filter("\\" \o ch)>>, ind, groups)
         [] ch = "n" -> lit("\n")
         [] ch = "t" -> lit("\t")
         [] ch = "r" -> lit("\r")
         [] ch = "0" -> lit("NUL")
         [] ch \in {"\\", "[", "]", "(", ")", "{", "}", "?", "+", "*", "|",
                    ".", "^", "$"} -> lit(ch)
         [] ch = "x" ->
              LET start_ind == ind - 1
                  n1 == _next(pattern, ind)
                  n2 == _next(pattern, n1.ind)
                  d1 == n1.ch
                  d2 == n2.ch
                  IsHex(d) == \E k \in 1..16 : HexDigits[k] = d
              IN IF d1 = None \/ d2 = None
                 THEN Raise("ValueError", start_ind, "escape cut in the middle",
                            n2.ind, groups)
                 ELSE IF ~IsHex(d1) \/ ~IsHex(d2)
                 THEN Raise("ValueError", start_ind, "not a hex digit",
                            n2.ind, groups)
                 ELSE Return(<<ins_char(chr(HexValue(d1) * 16 + HexValue(d2)))>>,
                             n2.ind, groups)
         [] OTHER ->
              Raise("ValueError", ind - 1, "unrecognized escape", ind, groups)

\* a _read_group_name for which (?: opens a capturing group as well
_read_group_name_capturing(pattern, ind0) ==
    IF _peek(pattern, ind0) # "?"
    THEN [capture |-> TRUE, name |-> <<>>, ind |-> ind0, err |-> NoError]
    ELSE IF _next(pattern, ind0 + 1).ch = ":"
    THEN [capture |-> TRUE, name |-> <<>>, ind |-> ind0 + 2, err |-> NoError]
    ELSE [capture |-> FALSE, name |-> <<>>, ind |-> ind0 + 2,
          err |-> [kind |-> "ValueError", pos |-> ind0 + 2,
                   reason |-> "invalid group decoration"]]

\* Compiler._read_group_name: capture is FALSE where the source returns None
_read_group_name(pattern, ind0) ==
    IF _peek(pattern, ind0) # "?"
    THEN [capture |-> TRUE, name |-> <<>>, ind |-> ind0, err |-> NoError]
    ELSE LET n == _next(pattern, ind0 + 1)
             ind == n.ind
             fail(pos, reason, at) ==
                 [capture |-> FALSE, name |-> <<>>, ind |-> at,
                  err |-> [kind |-> "ValueError", pos |-> pos, reason |-> reason]]
         IN CASE n.ch = None -> fail(ind - 1, "paren never closed", ind)
              [] n.ch = ":" ->
                   [capture |-> FALSE, name |-> <<>>, ind |-> ind, err |-> NoError]
              [] n.ch = "P" ->
                   LET m == _next(pattern, ind)
                       group_start == m.ind
                       group_end == find(pattern, ">", m.ind)
                   IN IF m.ch # "<"
                      THEN fail(m.ind, "expected group name", m.ind)
                      ELSE IF group_end = -1
                      THEN fail(group_start, "group name without closing bracket",
                                m.ind)
                      ELSE [capture |-> TRUE,
                            name |-> SubSeq(pattern, group_start + 1, group_end),
                            ind |-> group_end + 1, err |-> NoError]
              [] OTHER -> fail(ind, "invalid group decoration", ind)

RECURSIVE _compile_expression(_, _, _), _more_branches(_, _, _, _),
          _compile_serial(_, _, _, _), _compile_single(_, _, _),
          _quantifiers(_, _, _, _), _compile_atomic(_, _, _),
          _compile_parens(_, _, _)

\* a closing of a capturing group that emits no start_group before the body
_parens_close_unopened(pattern, start_ind, group_id, g, e) ==
    IF e.err # NoError THEN e
    ELSE IF _next(pattern, e.ind).ch = None
    THEN Raise("ValueError", start_ind, "paren never closed", e.ind, e.groups)
    ELSE IF _next(pattern, e.ind).ch # ")"
    THEN Raise("RuntimeError", e.ind + 1, "error 3", e.ind + 1, e.groups)
    ELSE IF g.capture
    THEN Return(e.program \o <<ins_end_group>>, e.ind + 1, e.groups)
    ELSE Return(e.program, e.ind + 1, e.groups)

\* Compiler._compile_parens from "ch = self._next()" on, e being what
\* _compile_expression returned or raised and g what _read_group_name returned
_parens_close(pattern, start_ind, group_id, g, e) ==
    LET n == _next(pattern, e.ind)
    IN IF e.err # NoError THEN e
       ELSE IF n.ch = None
       THEN Raise("ValueError", start_ind, "paren never closed", n.ind, e.groups)
       ELSE IF n.ch # ")"
       THEN Raise("RuntimeError", n.ind, "error 3", n.ind, e.groups)
       ELSE IF g.capture
       THEN Return(<<ins_start_group(group_id)>> \o e.program \o <<ins_end_group>>,
                   n.ind,
                   [e.groups EXCEPT ![group_id + 1] =
                       GroupDescription(g.name, <<start_ind, n.ind - 1>>)])
       ELSE Return(e.program, n.ind, e.groups)

\* Compiler._compile_parens from "if group_name is not None" on
_parens_inner(pattern, start_ind, groups, g) ==
    IF g.err # NoError
    THEN [program |-> <<>>, ind |-> g.ind, groups |-> groups, err |-> g.err]
    ELSE _parens_close(pattern, start_ind, Len(groups), g,
             _compile_expression(pattern, g.ind,
                 IF g.capture
                 THEN Append(groups, GroupDescription(g.name, <<start_ind, start_ind>>))
                 ELSE groups))

\* Compiler._compile_parens
_compile_parens(pattern, ind, groups) ==
    IF _peek(pattern, ind) = ")"
    THEN Raise("ValueError", ind, "empty parenthesis", ind, groups)
    ELSE _parens_inner(pattern, ind, groups, _read_group_name(pattern, ind))

\* Compiler._compile_atomic
_compile_atomic(pattern, ind0, groups) ==
    LET n == _next(pattern, ind0)
        ch == n.ch
        ind == n.ind
    IN CASE ch = None -> Return(<<>>, ind, groups)
         [] ch = "." -> Return(<<ins_any>>, ind, groups)
         [] ch \in {"?", "+", "*"} ->
              Raise("ValueError", ind, "operator without argument", ind, groups)
         [] ch = "|" -> Raise("RuntimeError", ind, "error 2", ind, groups)
         [] ch = "\\" -> _compile_escape(pattern, ind, groups)
         [] ch = "^" -> Return(<<ins_assert_start>>, ind, groups)
         [] ch = "$" -> Return(<<ins_assert_end>>, ind, groups)
         [] ch = "[" -> Raise("RuntimeError", -1, "[] is not implemented", ind, groups)
         [] ch = "]" -> Raise("ValueError", ind, "unexpected ]", ind, groups)
         [] ch = "(" -> _compile_parens(pattern, ind, groups)
         [] ch = ")" -> Raise("ValueError", ind, "unexpected )", ind, groups)
         [] OTHER -> Return(<<ins_char(ch)>>, ind, groups)

\* a quantifier loop whose + jumps one instruction too far back
_quantifiers_too_far(pattern, ind, groups, program) ==
    CASE _peek(pattern, ind) = "?" ->
             _quantifiers(pattern, ind + 1, groups,
                          <<split_after(Len(program))>> \o program)
      [] _peek(pattern, ind) = "+" ->
             _quantifiers(pattern, ind + 1, groups,
                          Append(program, split(-Len(program) - 2)))
      [] _peek(pattern, ind) = "*" ->
             _quantifiers(pattern, ind + 1, groups,
                          <<split_after(Len(program) + 1)>>
                              \o Append(program, split(-Len(program) - 1)))
      [] _peek(pattern, ind) = "{" ->
             Raise("RuntimeError", -1, "{} is not implemented", ind, groups)
      [] OTHER -> Return(program, ind, groups)

\* a quantifier loop whose * skips one instruction less than it wraps
_quantifiers_star_short(pattern, ind, groups, program) ==
    CASE _peek(pattern, ind) = "?" ->
             _quantifiers(pattern, ind + 1, groups,
                          <<split_after(Len(program))>> \o program)
      [] _peek(pattern, ind) = "+" ->
             _quantifiers(pattern, ind + 1, groups,
                          Append(program, split(-Len(program) - 1)))
      [] _peek(pattern, ind) = "*" ->
             _quantifiers(pattern, ind + 1, groups,
                          <<split_after(Len(program))>>
                              \o Append(program, split(-Len(program) - 1)))
      [] _peek(pattern, ind) = "{" ->
             Raise("RuntimeError", -1, "{} is not implemented", ind, groups)
      [] OTHER -> Return(program, ind, groups)

\* the while-loop of Compiler._compile_single, program being the fragment so far
_quantifiers(pattern, ind, groups, program) ==
    LET ch == _peek(pattern, ind)
    IN CASE ch = "?" ->
              _quantifiers(pattern, ind + 1, groups,
                           <<split_after(Len(program))>> \o program)
         [] ch = "+" ->
              _quantifiers(pattern, ind + 1, groups,
                           Append(program, split(-Len(program) - 1)))
         [] ch = "*" ->
              _quantifiers(pattern, ind + 1, groups,
                           <<split_after(Len(program) + 1)>>
                               \o Append(program, split(-Len(program) - 1)))
         [] ch = "{" -> Raise("RuntimeError", -1, "{} is not implemented", ind, groups)
         [] OTHER -> Return(program, ind, groups)

\* Compiler._compile_single after "program = self._compile_atomic()"
_single_quantified(pattern, a) ==
    IF a.err # NoError THEN a
    ELSE _quantifiers(pattern, a.ind, a.groups, a.program)

\* Compiler._compile_single
_compile_single(pattern, ind, groups) ==
    _single_quantified(pattern, _compile_atomic(pattern, ind, groups))

\* Compiler._compile_serial: program.extend(s) and the next turn of the loop
_serial_extend(pattern, program, s) ==
    IF s.err # NoError THEN s
    ELSE _compile_serial(pattern, s.ind, s.groups, program \o s.program)

\* Compiler._compile_serial, program being the fragment so far
_compile_serial(pattern, ind, groups, program) ==
    IF _peek(pattern, ind) \in {None, "|", ")"}
    THEN Return(program, ind, groups)
    ELSE _serial_extend(pattern, program, _compile_single(pattern, ind, groups))

\* Compiler._compile_expression: branches.append(s) and the next turn of the loop
_branches_append(pattern, branches, s) ==
    IF s.err # NoError THEN s
    ELSE _more_branches(pattern, s.ind, s.groups, Append(branches, s.program))

\* the while-loop of Compiler._compile_expression, over the branches so far
_more_branches(pattern, ind, groups, branches) ==
    IF _peek(pattern, ind) = "|"
    THEN _branches_append(pattern, branches,
                          _compile_serial(pattern, ind + 1, groups, <<>>))
    ELSE [program |-> branches, ind |-> ind, groups |-> groups, err |-> NoError]

\* Compiler._compile_expression: return self._compose_alternatives(branches)
_expression_compose(b) ==
    IF b.err # NoError THEN b
    ELSE Return(_compose_alternatives(b.program), b.ind, b.groups)

\* Compiler._compile_expression after the first _compile_serial
_expression_branches(pattern, s) ==
    IF s.err # NoError THEN s
    ELSE _expression_compose(_more_branches(pattern, s.ind, s.groups, <<s.program>>))

\* Compiler._compile_expression
_compile_expression(pattern, ind, groups) ==
    _expression_branches(pattern, _compile_serial(pattern, ind, groups, <<>>))

\* _assert_at_end_of_pattern that accepts a pattern with characters left over
_assert_at_end_unchecked(pattern, ind) == NoError

\* Compiler._assert_at_end_of_pattern: the exception, or NoError
_assert_at_end_of_pattern(pattern, ind) ==
    IF _peek(pattern, ind) # None
    THEN [kind |-> "RuntimeError", pos |-> ind + 1, reason |-> "error 1"]
    ELSE NoError

\* Compiler.compile after _compile_expression
_compile_end(pattern, e) ==
    IF e.err # NoError THEN e
    ELSE IF _assert_at_end_of_pattern(pattern, e.ind) # NoError
    THEN [e EXCEPT !.program = <<>>,
                   !.err = _assert_at_end_of_pattern(pattern, e.ind)]
    ELSE e

\* Compiler.compile, after Compiler.__init__
compile(pattern) ==
    _compile_end(pattern,
        _compile_expression(pattern, 0,
                            <<GroupDescription(<<>>, <<0, Len(pattern)>>)>>))

(***************************************************************************)
(* The inputs: patterns and subject strings.                               *)
(***************************************************************************)
StringAlphabet == {"a", "b", "c"}

PatternAlphabet == {"a", "b", "(", ")", "|", "*", "?"}

SeqsUpTo(S, n) == UNION {[1..k -> S] : k \in 0..n}

Strings == SeqsUpTo(StringAlphabet, MaxStrLen)

\* test_alternative.py matches alternations of four one-character groups
NumAlternatives == 4

\* (c1)|(c2)|...|(ck) for the characters cs
RECURSIVE Alternation(_)
Alternation(cs) ==
    IF Len(cs) = 1 THEN <<"(", cs[1], ")">>
    ELSE <<"(", cs[1], ")", "|">> \o Alternation(Tail(cs))

\* the characters of the alternatives: one to be the character of the string
\* and one to differ from it
AlternativeChars == {"a", "b"}

AlternationPatterns ==
    {Alternation(cs) : cs \in [1..NumAlternatives -> AlternativeChars]}

\* a literal character under each quantifier
QuantifierPatterns == {<<c, q>> : c \in StringAlphabet, q \in {"*", "+", "?"}}

ChosenPatterns ==
    { <<"(", "a", "+", ")", "+", "b">>,
      <<"(", "a", "*", ")", "*">>,
      <<"(", "a", "?", ")", "+">>,
      <<"(", "?", ":", ")", "*">>,
      <<"(", "?", ":", "|", "a", ")", "?">>,
      <<"(", "b", "?", ")", "?">>,
      <<"(", "a", "|", "a", "b", ")", "(", "b", "|", ")">>,
      <<"(", "(", "a", ")", "|", "b", ")", "+">>,
      <<"(", "?", "P", "<", "n", ">", "a", ")", "*", "b">>,
      <<"a", "?", "a", "?", "b">>,
      <<"^", "a", "b", "$">>,
      <<"a", "$">>,
      <<"b", "*", "$">>,
      <<"\\", "A", "a", "\\", "Z">>,
      <<".", "*", "b">>,
      <<".", "+">>,
      <<"\\", "w", "+">>,
      <<"\\", "d", "|", "\\", "D">>,
      <<"\\", "x", "6", "1", "+">>,
      <<"a", "$", "|", "a">>,
      <<"(", "a", ")", "*">>,
      <<"(", "a", ")", "+">>,
      <<"(", "a", ")">>,
      <<"(", "?", ":", "a", "|", "b", ")">> }

Patterns ==
    {p \in SeqsUpTo(PatternAlphabet, MaxPatLen) \cup AlternationPatterns
             \cup QuantifierPatterns \cup ChosenPatterns :
        compile(p).err = NoError}

(***************************************************************************)
(* pattern.py: Pattern.search, of which Pattern.match is the call with     *)
(* first_ind = last_ind = start_ind.  One behaviour is one call.           *)
(*   pattern_str, _program, _groups   the compiled Pattern                 *)
(*   context                          the ExecutionContext search creates  *)
(*   first_ind, last_ind, i           the arguments and the loop variable  *)
(*   pc                               "search": at the head of the for     *)
(*                                    loop; "run": inside context.run();   *)
(*                                    "done": search has returned;         *)
(*                                    "raised": an exception escaped       *)
(*   returned                         <<>> for None, <<m>> for the         *)
(*                                    ClosedGroupMatch of the Match        *)
(* History, not fields of the program:                                     *)
(*   dispatches   instructions invoked by the current call of run()        *)
(*   pushed       the (ind, pc) of every state appended to _states         *)
(*   starts       per start_at of this call: the index, and the _visited   *)
(*                and _states of the context it was called on              *)
(* Pattern.finditer is the generator that calls search again and again;    *)
(* Compiler.compile is the step from pattern_str to the Pattern:           *)
(*   yielded      what finditer has yielded: each match with the ind its   *)
(*                search was called with                                   *)
(*   error        the exception compile raised, or NoError                 *)
(***************************************************************************)
VARIABLES pattern_str, _program, _groups, context, first_ind, last_ind, i, pc,
          returned, dispatches, pushed, starts, yielded, error

vars == <<pattern_str, _program, _groups, context, first_ind, last_ind, i, pc,
          returned, dispatches, pushed, starts, yielded, error>>

inds(state) == <<state.ind, state.pc>>

\* the (ind, pc) of the states a step appended above the frontier it left
Appended(before, after) ==
    [k \in 1..(Len(after) - Len(before)) |-> inds(after[Len(before) + k])]

\* more dispatches than one context has (ind, pc) pairs to push: the count
\* stops there
DispatchLimit ==
    (Len(context.string) + MaxOver + 1) * (Len(context._program) + 1) + 1

Init ==
    /\ pattern_str \in Patterns
    /\ LET c == compile(pattern_str)
       IN /\ _program = c.program
          /\ _groups = c.groups
          /\ \E string \in Strings :
               /\ context = ExecutionContext(string, c.program)
               /\ first_ind \in 0..(Len(string) + MaxOver)
               /\ last_ind \in {k \in 0..(Len(string) + MaxOver) : k + 1 >= first_ind}
    /\ i = first_ind
    /\ pc = "search"
    /\ returned = <<>>
    /\ dispatches = 0
    /\ pushed = <<>>
    /\ starts = <<>>
    /\ yielded = <<>>
    /\ error = NoError

\* a search that makes a new context in every turn of its loop
loop_context_fresh(made) == ExecutionContext(made.string, made._program)

\* the context a turn of the for-loop of search uses: the one search made
\* before the loop
loop_context(made) == made

\* for i in range(first_ind, last_ind + 1): context.start_at(i)
search_start_at ==
    /\ pc = "search"
    /\ i <= last_ind
    /\ context' = start_at(loop_context(context), i)
    /\ pushed' = pushed \o Appended(context._states, context'._states)
    /\ starts' = Append(starts, [ind |-> i,
                                 visited |-> loop_context(context)._visited,
                                 frontier |-> loop_context(context)._states])
    /\ dispatches' = 0
    /\ pc' = "run"
    /\ UNCHANGED <<pattern_str, _program, _groups, first_ind, last_ind, i, returned,
                   yielded, error>>

\* the range is used up: search returns None
search_return_none ==
    /\ pc = "search"
    /\ i > last_ind
    /\ pc' = "done"
    /\ returned' = <<>>
    /\ UNCHANGED <<pattern_str, _program, _groups, context, first_ind, last_ind, i,
                   dispatches, pushed, starts, yielded, error>>

\* run(): a state with pc = len(program) is popped; finalize() and return
run_accept ==
    /\ pc = "run"
    /\ context._states # <<>>
    /\ LET p == pop(context._states)
       IN /\ p.state.pc = Len(context._program)
          /\ context' = [context EXCEPT !._states = p.rest,
                            !.raised = IF p.state._stack # <<>>
                                       THEN "AssertionError" ELSE None]
          /\ IF p.state._stack # <<>>
             THEN pc' = "raised" /\ returned' = returned
             ELSE pc' = "done" /\ returned' = <<_close_current_match(p.state)>>
    /\ UNCHANGED <<pattern_str, _program, _groups, first_ind, last_ind, i,
                   dispatches, pushed, starts, yielded, error>>

\* run(): a state is popped, its pc incremented and its instruction invoked
run_dispatch ==
    /\ pc = "run"
    /\ context._states # <<>>
    /\ LET p == pop(context._states)
           instruction == fetch(context._program, p.state.pc)
           popped == [context EXCEPT !._states = p.rest]
       IN /\ p.state.pc # Len(context._program)
          /\ context' = IF instruction = <<>>
                        THEN [popped EXCEPT !.raised = "IndexError"]
                        ELSE invoke(instruction[1], popped,
                                    [p.state EXCEPT !.pc = @ + 1])
          /\ pushed' = pushed \o Appended(p.rest, context'._states)
    /\ pc' = IF context'.raised # None THEN "raised" ELSE "run"
    /\ dispatches' = IF dispatches < DispatchLimit THEN dispatches + 1 ELSE dispatches
    /\ UNCHANGED <<pattern_str, _program, _groups, first_ind, last_ind, i,
                   returned, starts, yielded, error>>

\* run(): the frontier is empty, run returns None and search tries i + 1
run_return_none ==
    /\ pc = "run"
    /\ context._states = <<>>
    /\ i' = i + 1
    /\ pc' = "search"
    /\ UNCHANGED <<pattern_str, _program, _groups, context, first_ind, last_ind,
                   returned, dispatches, pushed, starts, yielded, error>>

Next ==
    \/ search_start_at
    \/ search_return_none
    \/ run_accept
    \/ run_dispatch
    \/ run_return_none

Spec == Init /\ [][Next]_vars

\* run() is a loop with nothing to wait for: it keeps taking steps
FairSpec == Spec /\ WF_vars(Next)

(***************************************************************************)
(* pattern.py: Pattern.finditer, the generator                             *)
(*     ind = 0                                                             *)
(*     while match := self.search(string, ind):                            *)
(*         yield match                                                     *)
(*         ind = match.span[0] + 1                                         *)
(* search is the machine above, called with first_ind = ind and last_ind   *)
(* = len(string).  pc is "yielded" while the generator is suspended at     *)
(* its yield and "exhausted" when its loop has ended.                      *)
(***************************************************************************)

\* finditer(string) is called and calls search(string, 0)
IterInit ==
    /\ pattern_str \in Patterns
    /\ LET c == compile(pattern_str)
       IN /\ _program = c.program
          /\ _groups = c.groups
          /\ \E string \in Strings :
               /\ context = ExecutionContext(string, c.program)
               /\ first_ind = 0
               /\ last_ind = Len(string)
    /\ i = first_ind
    /\ pc = "search"
    /\ returned = <<>>
    /\ dispatches = 0
    /\ pushed = <<>>
    /\ starts = <<>>
    /\ yielded = <<>>
    /\ error = NoError

\* a finditer that goes on after the end of the match
next_ind_past_end(yielded_match) == yielded_match.span[2] + 1

\* ind after a match was yielded
next_ind(yielded_match) == yielded_match.span[1] + 1

\* search has returned a match: yield match
finditer_yield ==
    /\ pc = "done"
    /\ returned # <<>>
    /\ yielded' = Append(yielded, [match |-> returned[1], ind |-> first_ind])
    /\ pc' = "yielded"
    /\ UNCHANGED <<pattern_str, _program, _groups, context, first_ind, last_ind, i,
                   returned, dispatches, pushed, starts, error>>

\* the generator is resumed: ind = match.span[0] + 1 and search(string, ind)
\* is called, which makes its context
finditer_resume ==
    /\ pc = "yielded"
    /\ first_ind' = next_ind(Last(yielded).match)
    /\ last_ind' = Len(context.string)
    /\ i' = first_ind'
    /\ context' = ExecutionContext(context.string, _program)
    /\ returned' = <<>>
    /\ dispatches' = 0
    /\ pushed' = <<>>
    /\ starts' = <<>>
    /\ pc' = "search"
    /\ UNCHANGED <<pattern_str, _program, _groups, yielded, error>>

\* search has returned None: the loop of finditer ends
finditer_return ==
    /\ pc = "done"
    /\ returned = <<>>
    /\ pc' = "exhausted"
    /\ UNCHANGED <<pattern_str, _program, _groups, context, first_ind, last_ind, i,
                   returned, dispatches, pushed, starts, yielded, error>>

IterNext ==
    \/ search_start_at
    \/ search_return_none
    \/ run_accept
    \/ run_dispatch
    \/ run_return_none
    \/ finditer_yield
    \/ finditer_resume
    \/ finditer_return

IterSpec == IterInit /\ [][IterNext]_vars

\* findall is list(finditer(string)): the generator is resumed until it ends
FairIterSpec == IterSpec /\ WF_vars(IterNext)

(***************************************************************************)
(* compiler.py: Compiler.compile as the one step from a pattern to the     *)
(* Pattern or to the exception it raises.  pc is "compile" before the call, *)
(* "compiled" when it has returned and "compile raised" when it has raised. *)
(* The patterns are all sequences up to MaxErrLen of the characters the    *)
(* compiler tells apart, every \x escape with its two characters, the      *)
(* constructs it does not implement in the places a pattern can have them, *)
(* and the patterns of the search machine.                                 *)
(***************************************************************************)
\* "a": a literal, a hex digit and an escape letter that is not recognized;
\* "A": an escape letter (\A) and not a lowercase hex digit; "1": a digit of
\* a backreference and a hex digit; ":", "=", "!": group modifiers
ErrAlphabet ==
    {"a", "(", ")", "|", "*", "+", "?", "[", "]", "{", "\\", "x", "A", "1", ":", "=", "!"}

HexEscapes == {<<"\\", "x", d1, d2>> : d1, d2 \in ErrAlphabet}

\* a character class, a bounded quantifier with and without an atom before
\* it, the lookarounds, a backreference
UnsupportedConstructs ==
    { <<"[", "a", "]">>,
      <<"a", "{", "1", "}">>,
      <<"{", "1", "}">>,
      <<"(", "?", "=", "a", ")">>,
      <<"(", "?", "!", "a", ")">>,
      <<"\\", "1">> }

\* a construct alone, after and before a character, as either alternative,
\* in a group and under a quantifier
Placements(x) ==
    { x, <<"a">> \o x, x \o <<"a">>, <<"a", "|">> \o x, x \o <<"|", "a">>,
      <<"(">> \o x \o <<")">>, <<"(", "?", ":">> \o x \o <<")">>, x \o <<"*">> }

UnsupportedPatterns == UNION {Placements(x) : x \in UnsupportedConstructs}

CompilePatterns ==
    SeqsUpTo(ErrAlphabet, MaxErrLen) \cup HexEscapes \cup UnsupportedPatterns
        \cup ChosenPatterns

CompileInit ==
    /\ pattern_str \in CompilePatterns
    /\ pc = "compile"
    /\ _program = <<>>
    /\ _groups = <<>>
    /\ error = NoError
    /\ context = ExecutionContext(<<>>, <<>>)
    /\ first_ind = 0
    /\ last_ind = 0
    /\ i = 0
    /\ returned = <<>>
    /\ dispatches = 0
    /\ pushed = <<>>
    /\ starts = <<>>
    /\ yielded = <<>>

\* Compiler.compile(pattern)
compile_pattern ==
    /\ pc = "compile"
    /\ LET c == compile(pattern_str)
       IN /\ _program' = c.program
          /\ _groups' = c.groups
          /\ error' = c.err
          /\ pc' = IF c.err = NoError THEN "compiled" ELSE "compile raised"
    /\ UNCHANGED <<pattern_str, context, first_ind, last_ind, i, returned,
                   dispatches, pushed, starts, yielded>>

CompileNext == compile_pattern

CompileSpec == CompileInit /\ [][CompileNext]_vars

(***************************************************************************)
(* What the properties below are stated against: the program read as a     *)
(* nondeterministic automaton, without the frontier and the visited set.   *)
(***************************************************************************)
Min(S) == CHOOSE m \in S : \A n \in S : m <= n

Reverse(s) == [k \in 1..Len(s) |-> s[Len(s) + 1 - k]]

Halted == pc \in {"done", "raised"}

\* search was called as match does: one start position
IsMatchCall == first_ind = last_ind

\* the continuations of a partial match whose pc names an instruction, the
\* preferred one first
Continuations(program, string, state) ==
    LET ins == program[state.pc + 1]
        s == [state EXCEPT !.pc = @ + 1]
        step == [s EXCEPT !.ind = @ + 1]
        jump == [s EXCEPT !.pc = @ + ins.offset]
    IN CASE ins.op = "any" -> IF s.ind < Len(string) THEN <<step>> ELSE <<>>
         [] ins.op = "char" ->
              IF s.ind < Len(string) /\ string[s.ind + 1] = ins.ch
              THEN <<step>> ELSE <<>>
         [] ins.op = "filter" ->
              IF s.ind < Len(string) /\ condition(ins.ch, string[s.ind + 1])
              THEN <<step>> ELSE <<>>
         [] ins.op = "assert start" -> IF s.ind = 0 THEN <<s>> ELSE <<>>
         [] ins.op = "assert end" -> IF s.ind = Len(string) THEN <<s>> ELSE <<>>
         [] ins.op = "split" -> IF ins.prefer_jump THEN <<jump, s>> ELSE <<s, jump>>
         [] ins.op = "jump" -> <<jump>>
         [] ins.op = "start group" -> <<start_group(s, ins.group_id)>>
         [] ins.op = "end group" -> <<end_group(s)>>

\* the (ind, pc) one step after the (ind, pc) in nodes
Successors(program, string, nodes) ==
    UNION {IF n[2] = Len(program) THEN {}
           ELSE LET cs == Continuations(program, string,
                                        [PartialMatch(n[1], n[2]) EXCEPT
                                            !._stack = <<OpenGroupMatch(0, 0, <<>>)>>])
                IN {inds(cs[k]) : k \in 1..Len(cs)}
           : n \in nodes}

\* the (ind, pc) on the execution paths from those of seen, of which the
\* ones of fresh have not been stepped from yet
RECURSIVE ReachableFrom(_, _, _, _)
ReachableOnward(program, string, seen, next) ==
    IF next \subseteq seen THEN seen
    ELSE ReachableFrom(program, string, seen \cup next, next \ seen)

ReachableFrom(program, string, seen, fresh) ==
    ReachableOnward(program, string, seen, Successors(program, string, fresh))

\* the program has an execution path from (ind = start, pc = 0) to pc = L
Matches(program, string, start) ==
    \E n \in ReachableFrom(program, string, {<<start, 0>>}, {<<start, 0>>}) :
        n[2] = Len(program)

\* depth-first exploration without a visited set, the preferred continuation
\* of every instruction first; a path that comes back to an (ind, pc) it has
\* been through has made no progress and is left.  stack holds the partial
\* matches still to explore, each with the (ind, pc) of its own path.
RECURSIVE Backtrack(_, _, _), BacktrackTop(_, _, _, _)
BacktrackTop(program, string, rest, top) ==
    IF top.state.pc = Len(program)
    THEN <<_close_current_match(top.state)>>
    ELSE LET cs == Continuations(program, string, top.state)
             onward == SelectSeq(
                 [k \in 1..Len(cs) |->
                     [state |-> cs[k], path |-> top.path \cup {inds(top.state)}]],
                 LAMBDA e : inds(e.state) \notin e.path)
         IN Backtrack(program, string, rest \o Reverse(onward))

Backtrack(program, string, stack) ==
    IF stack = <<>> THEN <<>>
    ELSE BacktrackTop(program, string, Front(stack), Last(stack))

\* the first accepting path in preference order from (ind = start, pc = 0)
Preferred(program, string, start) ==
    Backtrack(program, string, <<[state |-> PartialMatch(start, 0), path |-> {}]>>)

RECURSIVE PreferredSearch(_, _, _, _), PreferredOr(_, _, _, _, _)
PreferredOr(program, string, lo, hi, m) ==
    IF m # <<>> THEN m ELSE PreferredSearch(program, string, lo + 1, hi)

\* the first start position in lo..hi with an accepting path, and its
\* preferred match
PreferredSearch(program, string, lo, hi) ==
    IF lo > hi THEN <<>>
    ELSE PreferredOr(program, string, lo, hi, Preferred(program, string, lo))

(***************************************************************************)
(* The properties.                                                         *)
(***************************************************************************)

\* C1: match() of an alternation (c1)|(c2)|(c3)|(c4) of one-character
\* capturing groups against a one-character string s succeeds whenever some
\* cj = s, and the first child of the match is the group of the smallest
\* such j.
C1_FirstAlternativeIsTaken ==
    ( /\ Halted
      /\ Len(context.string) = 1
      /\ first_ind = 0 /\ last_ind = 0
      /\ Len(pattern_str) = 4 * NumAlternatives - 1 )
    => \A cs \in [1..NumAlternatives -> AlternativeChars] :
        ( /\ pattern_str = Alternation(cs)
          /\ \E j \in 1..NumAlternatives : cs[j] = context.string[1] )
        => /\ pc = "done"
           /\ returned # <<>>
           /\ returned[1].sub_matches # <<>>
           /\ returned[1].sub_matches[1].group_id =
                  Min({j \in 1..NumAlternatives : cs[j] = context.string[1]})

\* (b)|(b)|(a)|(a) on "a": the third group is the one taken
C1_Witness ==
    /\ pc = "done"
    /\ pattern_str = Alternation(<<"b", "b", "a", "a">>)
    /\ context.string = <<"a">>
    /\ first_ind = 0 /\ last_ind = 0
    /\ returned # <<>>
    /\ returned[1].sub_matches[1].group_id = 3

\* C2: the match search returns (span and capture tree) is the one of the
\* first accepting path in preference order, as a depth-first exploration
\* without the visited set finds it.
C2_ReturnsPreferredMatch ==
    pc = "done" =>
        returned = PreferredSearch(_program, context.string, first_ind, last_ind)

\* C3: run() after start_at(i) returns a match if and only if the program has
\* an execution path from (ind = i, pc = 0) to pc = L, and it raises nothing.
C3_MatchIffPathExists ==
    /\ pc # "raised"
    /\ (pc = "run" /\ context._states = <<>>)
           => ~Matches(_program, context.string, i)
    /\ (pc = "done" /\ returned # <<>>)
           => Matches(_program, context.string, i)

\* a run that gave up states with a visited (ind, pc) and still found the match
C3_Witness ==
    /\ pc = "done"
    /\ pattern_str = <<"(", "a", "?", ")", "+">>
    /\ context.string = <<"a", "a">>
    /\ first_ind = 0
    /\ returned # <<>>
    /\ returned[1].span = <<0, 2>>

\* C4: no (ind, pc) is pushed onto the frontier twice; the states on the
\* frontier have pairwise distinct (ind, pc), all of them in the visited set,
\* which holds exactly the pairs pushed.
C4_PushedAtMostOnce ==
    /\ Cardinality({pushed[a] : a \in 1..Len(pushed)}) = Len(pushed)
    /\ Cardinality({inds(context._states[a]) : a \in 1..Len(context._states)})
           = Len(context._states)
    /\ \A a \in 1..Len(context._states) :
           inds(context._states[a]) \in context._visited
    /\ context._visited = {pushed[a] : a \in 1..Len(pushed)}

\* start_at found its (ind, 0) visited by an earlier attempt and pushed nothing
C4_Witness ==
    /\ pc = "run"
    /\ dispatches = 0
    /\ context._states = <<>>
    /\ <<i, 0>> \in context._visited
    /\ Len(pushed) >= 3

\* C5: every call of run() terminates: the frontier empties or an accepting
\* state is popped, also for loops whose body matches the empty string.
C5_RunTerminates == (pc = "run") ~> (pc # "run")

\* (a*)* has matched "aa": the loop over a body that can be empty has ended
C5_Witness ==
    /\ pc = "done"
    /\ pattern_str = <<"(", "a", "*", ")", "*">>
    /\ context.string = <<"a", "a">>
    /\ returned # <<>>
    /\ dispatches > 6

\* (len(subject) + 1) * (L + 1)
SizeBound == (Len(context.string) + 1) * (Len(_program) + 1)

\* a^n followed by c, n >= 0
IsAsThenC(string) ==
    /\ string # <<>>
    /\ Last(string) = "c"
    /\ \A k \in 1..(Len(string) - 1) : string[k] = "a"

\* C6: the visited set and the frontier never hold more than
\* (len(subject) + 1) * (L + 1) entries, run() never dispatches more
\* instructions than that, and match of (a+)+b against a^n c returns no
\* result.
C6_WithinSizeBound ==
    /\ Cardinality(context._visited) <= SizeBound
    /\ Len(context._states) <= SizeBound
    /\ dispatches <= SizeBound
    /\ ( /\ Halted
         /\ pattern_str = <<"(", "a", "+", ")", "+", "b">>
         /\ IsAsThenC(context.string)
         /\ first_ind = 0 /\ last_ind = 0 )
       => (pc = "done" /\ returned = <<>>)

\* the number of consecutive c in string from the 0-based index start on
RECURSIVE RunLength(_, _, _)
RunLength(string, c, start) ==
    IF start < Len(string) /\ string[start + 1] = c
    THEN 1 + RunLength(string, c, start + 1)
    ELSE 0

\* C7: matched at a position, c* and c+ consume the whole maximal run of c
\* that starts there (c+ fails on an empty run), and c? consumes one c
\* whenever there is one.
C7_QuantifiersAreGreedy ==
    \A c \in StringAlphabet :
        (Halted /\ IsMatchCall
            /\ pattern_str \in {<<c, "*">>, <<c, "+">>, <<c, "?">>})
        => LET n == RunLength(context.string, c, first_ind)
               taken == IF pattern_str[2] = "?" /\ n > 1 THEN 1 ELSE n
           IN /\ pc = "done"
              /\ IF pattern_str[2] = "+" /\ n = 0
                 THEN returned = <<>>
                 ELSE /\ returned # <<>>
                      /\ returned[1].span = <<first_ind, first_ind + taken>>

\* a* on "aab" from 0 takes both a
C7_Witness ==
    /\ pc = "done"
    /\ pattern_str = <<"a", "*">>
    /\ Len(context.string) >= 2
    /\ SubSeq(context.string, 1, 2) = <<"a", "a">>
    /\ first_ind = 0 /\ last_ind = 0
    /\ returned # <<>>
    /\ returned[1].span = <<0, 2>>

\* a match and every match nested in it
RECURSIVE Nested(_)
Nested(m) == {m} \cup UNION {Nested(m.sub_matches[k]) : k \in 1..Len(m.sub_matches)}

\* C8: every ClosedGroupMatch of a returned tree has
\* 0 <= span.start <= span.end <= len(subject), whatever the start index.
C8_SpansWithinSubject ==
    \A k \in 1..Len(returned) :
        \A m \in Nested(returned[k]) :
            /\ 0 <= m.span[1]
            /\ m.span[1] <= m.span[2]
            /\ m.span[2] <= Len(context.string)

\* the start positions in first_ind..last_ind at which the pattern matches
MatchingStarts ==
    {k \in first_ind..last_ind : Matches(_program, context.string, k)}

\* C9: search returns a match that starts at the smallest index of
\* first_ind..last_ind at which the pattern matches, and None only if it
\* matches at none of them; a match that match() returns starts at start_ind.
C9_SearchReturnsLeftmost ==
    /\ pc # "raised"
    /\ pc = "done" =>
          /\ IF returned = <<>>
             THEN MatchingStarts = {}
             ELSE /\ returned[1].span[1] \in first_ind..last_ind
                  /\ Matches(_program, context.string, returned[1].span[1])
                  /\ \A k \in first_ind..(returned[1].span[1] - 1) :
                         ~Matches(_program, context.string, k)
          /\ (IsMatchCall /\ returned # <<>>) => returned[1].span[1] = first_ind

\* search went past a start position without a match and found one later
C9_Witness ==
    /\ pc = "done"
    /\ returned # <<>>
    /\ returned[1].span[1] > first_ind
    /\ MatchingStarts # {}

\* C10 as stated: every start position is attempted with a context whose
\* visited set is empty.
C10_FreshVisitedSet ==
    \A k \in 1..Len(starts) : starts[k].visited = {}

\* C10 as the code has it: search attempts every start position with the one
\* context it made.  The frontier is empty when an attempt begins; the
\* visited set is empty at the first attempt only, and at every later one
\* it still holds the (ind, pc) of the attempts before, the earlier start
\* positions' (ind, 0) among them.
C10_SharedVisitedSet ==
    \A k \in 1..Len(starts) :
        /\ starts[k].frontier = <<>>
        /\ IF k = 1
           THEN starts[k].visited = {}
           ELSE starts[k - 1].visited \cup {<<starts[k - 1].ind, 0>>}
                    \subseteq starts[k].visited

\* a third attempt begins with what the two before it recorded
C10_Witness ==
    /\ Len(starts) >= 3
    /\ Cardinality(starts[3].visited) > Cardinality(starts[2].visited)
    /\ Cardinality(starts[2].visited) > 1

\* the machine and the functions are the same search
SearchAgrees ==
    pc = "done" =>
        returned = search(_program, context.string, first_ind, last_ind).result

\* C11: the matches finditer yields do not overlap: each starts at or after
\* the end of the match yielded before it.
C11_YieldsDoNotOverlap ==
    \A k \in 1..(Len(yielded) - 1) :
        yielded[k + 1].match.span[1] >= yielded[k].match.span[2]

\* C12: after finditer has yielded a match with span (s, e) the next match
\* it yields is the result of search(string, s + 1), the first being the
\* result of search(string, 0); the start positions strictly increase, at
\* most len(string) + 1 matches are yielded, and finditer finishes.
C12_NextSearchFromStartPlusOne ==
    /\ [](/\ \A k \in 1..Len(yielded) :
               /\ yielded[k].ind = IF k = 1 THEN 0
                                   ELSE yielded[k - 1].match.span[1] + 1
               /\ <<yielded[k].match>> =
                      search(_program, context.string, yielded[k].ind,
                             Len(context.string)).result
          /\ \A k \in 1..(Len(yielded) - 1) :
               yielded[k].match.span[1] < yielded[k + 1].match.span[1]
          /\ Len(yielded) <= Len(context.string) + 1)
    /\ <>(pc = "exhausted")

\* (a*)* on "aa" has yielded (0, 2), (1, 2) and the empty match at 2, and
\* has finished
C12_Witness ==
    /\ pc = "exhausted"
    /\ pattern_str = <<"(", "a", "*", ")", "*">>
    /\ context.string = <<"a", "a">>
    /\ Len(yielded) = 3
    /\ yielded[3].match.span = <<2, 2>>

\* C13: if match(P, S) succeeds with span (0, e), then match(P, S[0:e])
\* succeeds as well.
C13_MatchOfMatchedPrefix ==
    (pc = "done" /\ IsMatchCall /\ first_ind = 0 /\ returned # <<>>)
    => /\ returned[1].span[1] = 0
       /\ returned[1].span[2] <= Len(context.string)
       /\ match(_program,
                SubSeq(context.string, 1, returned[1].span[2]), 0).result # <<>>

\* a$|a on "ab" matches "a" by its second alternative; on "a" the first
\* alternative, with the assertion, is the one that matches
C13_Witness ==
    /\ pc = "done"
    /\ pattern_str = <<"a", "$", "|", "a">>
    /\ context.string = <<"a", "b">>
    /\ first_ind = 0 /\ last_ind = 0
    /\ returned # <<>>
    /\ returned[1].span = <<0, 1>>
    /\ match(_program, <<"a">>, 0).result # <<>>

\* the children of (c)* or (c)+ matched over n times c from start on: one
\* child of group 1 per c, in the order of the string
IterationChildren(start, n) ==
    [k \in 1..n |-> ClosedGroupMatch(1, <<start + k - 1, start + k>>, <<>>)]

\* C14: children are listed in the order in which their groups were closed:
\* in every match of a returned tree the span ends of the children do not
\* decrease from one child to the next, and (c)* and (c)+ have one child of
\* group 1 per iteration, in the order of the iterations.
C14_ChildrenInCompletionOrder ==
    /\ \A r \in 1..Len(returned) :
         \A m \in Nested(returned[r]) :
            \A k \in 1..(Len(m.sub_matches) - 1) :
                m.sub_matches[k].span[2] <= m.sub_matches[k + 1].span[2]
    /\ \A c \in StringAlphabet :
         ( /\ pc = "done" /\ IsMatchCall /\ returned # <<>>
           /\ pattern_str \in {<<"(", c, ")", "*">>, <<"(", c, ")", "+">>} )
         => returned[1].sub_matches =
                IterationChildren(first_ind, RunLength(context.string, c, first_ind))

\* (a)* on a string that begins with "aa": the children (0, 1) and (1, 2) first
C14_Witness ==
    /\ pc = "done"
    /\ pattern_str = <<"(", "a", ")", "*">>
    /\ first_ind = 0 /\ last_ind = 0
    /\ returned # <<>>
    /\ Len(returned[1].sub_matches) >= 2
    /\ returned[1].sub_matches[1].span = <<0, 1>>
    /\ returned[1].sub_matches[2].span = <<1, 2>>


(***************************************************************************)
(* The lexical elements of a pattern, read off the grammar of the Compiler *)
(* docstring and the cases of _compile_atomic, _read_group_name and        *)
(* _compile_escape, without compiling anything.                            *)
(***************************************************************************)
EscapedChars ==
    {"A", "Z", "d", "D", "s", "S", "w", "W", "n", "t", "r", "0", "\\", "[", "]",
     "(", ")", "{", "}", "?", "+", "*", "|", ".", "^", "$"}

BackrefDigits == {"1", "2", "3", "4", "5", "6", "7", "8", "9"}

IsHexDigit(d) == \E k \in 1..16 : HexDigits[k] = d

Token(kind, at, len) == [kind |-> kind, at |-> at, len |-> len]

\* the element that starts at the 1-based position at of pattern
TokenAt(pattern, at) ==
    LET ch == pattern[at]
        has(k) == at + k <= Len(pattern)
    IN CASE ch = "\\" ->
              IF ~has(1) THEN Token("bad escape", at, 1)
              ELSE IF pattern[at + 1] = "x"
              THEN IF ~has(3)
                   THEN Token("truncated hex", at, Len(pattern) - at + 1)
                   ELSE IF IsHexDigit(pattern[at + 2]) /\ IsHexDigit(pattern[at + 3])
                   THEN Token("atom", at, 4)
                   ELSE Token("invalid hex", at, 4)
              ELSE IF pattern[at + 1] \in EscapedChars THEN Token("atom", at, 2)
              ELSE IF pattern[at + 1] \in BackrefDigits
              THEN Token("backreference", at, 2)
              ELSE Token("bad escape", at, 2)
         [] ch = "(" ->
              IF ~has(1) \/ pattern[at + 1] # "?" THEN Token("open", at, 1)
              ELSE IF ~has(2) THEN Token("open modified", at, 2)
              ELSE IF pattern[at + 2] = ":" THEN Token("open modified", at, 3)
              ELSE IF pattern[at + 2] \in {"=", "!"} THEN Token("lookaround", at, 3)
              ELSE IF /\ pattern[at + 2] = "P"
                      /\ has(3)
                      /\ pattern[at + 3] = "<"
                      /\ find(pattern, ">", at + 3) # -1
              THEN Token("open modified", at, find(pattern, ">", at + 3) + 2 - at)
              ELSE Token("bad modifier", at, 3)
         [] ch = ")" -> Token("close", at, 1)
         [] ch = "|" -> Token("bar", at, 1)
         [] ch \in {"?", "+", "*"} -> Token("quantifier", at, 1)
         [] ch = "[" -> Token("class", at, 1)
         [] ch = "]" -> Token("bracket", at, 1)
         [] ch = "{" -> Token("brace", at, 1)
         [] OTHER -> Token("atom", at, 1)

RECURSIVE Lex(_, _)
Lex(pattern, at) ==
    IF at > Len(pattern) THEN <<>>
    ELSE <<TokenAt(pattern, at)>> \o Lex(pattern, at + TokenAt(pattern, at).len)

Tokens(pattern) == Lex(pattern, 1)

Opens(token) ==
    token.kind \in {"open", "open modified", "lookaround", "bad modifier"}

\* an unclosed ( or an unmatched ) from token k on, depth parentheses being open
RECURSIVE Unbalanced(_, _, _)
Unbalanced(tokens, k, depth) ==
    IF k > Len(tokens) THEN depth > 0
    ELSE IF Opens(tokens[k]) THEN Unbalanced(tokens, k + 1, depth + 1)
    ELSE IF tokens[k].kind = "close"
    THEN depth = 0 \/ Unbalanced(tokens, k + 1, depth - 1)
    ELSE Unbalanced(tokens, k + 1, depth)

\* a quantifier at the start of the pattern, of a group or of an alternative
QuantifierWithoutAtom(tokens) ==
    \E k \in 1..Len(tokens) :
        /\ tokens[k].kind = "quantifier"
        /\ (k = 1 \/ Opens(tokens[k - 1]) \/ tokens[k - 1].kind = "bar")

EmptyParentheses(tokens) ==
    \E k \in 1..(Len(tokens) - 1) :
        tokens[k].kind = "open" /\ tokens[k + 1].kind = "close"

HasKind(tokens, kinds) == \E k \in 1..Len(tokens) : tokens[k].kind \in kinds

\* the malformed patterns: mismatched parentheses, quantifier without
\* target, unescaped ], (), invalid escape, unknown group modifier
Malformed(pattern) ==
    \/ Unbalanced(Tokens(pattern), 1, 0)
    \/ QuantifierWithoutAtom(Tokens(pattern))
    \/ EmptyParentheses(Tokens(pattern))
    \/ HasKind(Tokens(pattern), {"bracket", "bad escape", "truncated hex",
                                 "invalid hex", "bad modifier"})

\* C15: compile raises, and makes no Pattern, for every pattern with an
\* unclosed ( or an unmatched ), a quantifier without a preceding atom, an
\* unescaped ], empty parentheses, an unrecognized escape, a \x escape that
\* is cut short or has a character outside 0-9a-f, or an unknown group
\* modifier.
C15_MalformedPatternRaises ==
    (pc # "compile" /\ Malformed(pattern_str)) =>
        (pc = "compile raised" /\ error # NoError /\ _program = <<>>)

\* \xaA was compiled: the uppercase hex digit is rejected
C15_Witness ==
    /\ pc = "compile raised"
    /\ pattern_str = <<"\\", "x", "a", "A">>
    /\ Malformed(pattern_str)
    /\ error.kind = "ValueError"

\* the constructs the compiler does not implement: a character class [, a
\* bounded quantifier {, a lookaround group, a backreference
Unsupported(pattern) ==
    HasKind(Tokens(pattern), {"class", "brace", "lookaround", "backreference"})

\* C16: compile raises for every pattern that contains an unescaped [, an
\* unescaped {, a lookaround group (?= or (?! or a backreference \1 to \9,
\* wherever the construct occurs in the pattern.
C16_UnsupportedConstructRaises ==
    (pc # "compile" /\ Unsupported(pattern_str)) => error # NoError

MalformedOnly(pattern) == Malformed(pattern) /\ ~Unsupported(pattern)

UnsupportedOnly(pattern) == Unsupported(pattern) /\ ~Malformed(pattern)

\* the patterns of the model on which compile raises
Raising == {p \in CompilePatterns : compile(p).err # NoError}

\* the exception classes compile raises for the malformed patterns
SyntaxKinds == {compile(p).err.kind : p \in {q \in Raising : MalformedOnly(q)}}

\* the exception classes compile raises for the unsupported features
UnsupportedKinds == {compile(p).err.kind : p \in {q \in Raising : UnsupportedOnly(q)}}

\* C17: the kind of error raised for an unsupported feature differs from the
\* kind raised for a malformed pattern: no malformed pattern raises a kind
\* that an unsupported feature raises, and no unsupported feature raises a
\* kind that a malformed pattern raises.
C17_ErrorKindsAreDistinct ==
    pc = "compile raised" =>
        /\ MalformedOnly(pattern_str) => error.kind \notin UnsupportedKinds
        /\ UnsupportedOnly(pattern_str) => error.kind \notin SyntaxKinds

\* token k is at fault: an element that is an error by itself, a quantifier
\* without an atom before it, the ( of a (), or a parenthesis of a pattern
\* whose parentheses are not balanced
Offending(tokens, k) ==
    \/ tokens[k].kind \in {"bracket", "bad escape", "truncated hex", "invalid hex",
                           "bad modifier", "class", "brace", "lookaround",
                           "backreference"}
    \/ /\ tokens[k].kind = "quantifier"
       /\ (k = 1 \/ Opens(tokens[k - 1]) \/ tokens[k - 1].kind = "bar")
    \/ /\ tokens[k].kind = "open"
       /\ k < Len(tokens)
       /\ tokens[k + 1].kind = "close"
    \/ /\ Opens(tokens[k]) \/ tokens[k].kind = "close"
       /\ Unbalanced(tokens, 1, 0)

\* the 1-based positions of the offending characters of token k: its opening
\* character and, for a group modifier, the character after (? as well
PositionsOf(token) ==
    IF token.kind \in {"lookaround", "bad modifier"}
    THEN {token.at, token.at + 2}
    ELSE {token.at}

OffendingPositions(pattern) ==
    UNION {PositionsOf(Tokens(pattern)[k]) :
               k \in {n \in 1..Len(Tokens(pattern)) : Offending(Tokens(pattern), n)}}

\* C18: every error raised by compile carries the 1-based position in the
\* pattern of the offending character, for a construct that of its opening
\* character.
C18_ErrorCarriesPosition ==
    pc = "compile raised" => error.pos \in OffendingPositions(pattern_str)

\* the instruction a queued state executes when it is popped, if any
NextInstruction(state) ==
    IF state.pc = Len(context._program) THEN <<>>
    ELSE fetch(context._program, state.pc)

\* C19: executing a compiled program never raises: no exception escapes an
\* instruction or run, every queued state about to execute end_group has an
\* open group on its stack, every queued state with pc = len(program) has an
\* empty stack (the assertion of finalize), and every group_id of a returned
\* tree indexes the group table of the pattern.
C19_ExecutionNeverRaises ==
    /\ pc # "raised"
    /\ context.raised = None
    /\ \A k \in 1..Len(context._states) :
         /\ context._states[k].pc = Len(context._program)
               => context._states[k]._stack = <<>>
         /\ ( /\ NextInstruction(context._states[k]) # <<>>
              /\ NextInstruction(context._states[k])[1].op = "end group" )
               => context._states[k]._stack # <<>>
    /\ \A r \in 1..Len(returned) :
         \A m \in Nested(returned[r]) : m.group_id \in 0..(Len(_groups) - 1)

\* ((a)|b)+ has matched and its tree holds a group 2 inside a group 1: two
\* nested groups were opened and closed
C19_Witness ==
    /\ pc = "done"
    /\ pattern_str = <<"(", "(", "a", ")", "|", "b", ")", "+">>
    /\ returned # <<>>
    /\ \E m \in Nested(returned[1]) :
         /\ m.group_id = 1
         /\ \E k \in 1..Len(m.sub_matches) : m.sub_matches[k].group_id = 2
    /\ Len(_groups) = 3

\* the partial matches of a state of the program: the states of the frontier
Frontier == {context._states[k] : k \in 1..Len(context._states)}

\* C20: in every state reachable while executing a compiled program, the
\* open-group stack of a partial match is empty if and only if its current
\* frame has group_id 0.
C20_StackEmptyIffGroupZero ==
    \A state \in Frontier : (state._stack = <<>>) <=> (state._match.group_id = 0)

\* ((a)|b)+ is running: one partial match is inside group 2, with two frames
\* on its stack, and another one is back in group 0 with a closed child
C20_Witness ==
    /\ pc = "run"
    /\ pattern_str = <<"(", "(", "a", ")", "|", "b", ")", "+">>
    /\ \E state \in Frontier :
         state._match.group_id = 2 /\ Len(state._stack) = 2
    /\ \E state \in Frontier :
         /\ state._match.group_id = 0
         /\ state._stack = <<>>
         /\ state._match.sub_matches # <<>>

(***************************************************************************)
(* Compiler.compile on patterns that compile: the shape of the program and *)
(* of the group table.                                                     *)
(***************************************************************************)
MaxProgLen == 4

ProgAlphabet == {"a", "b", "(", ")", "|", "*", "+", "?"}

\* patterns with capturing, named, non-capturing and nested groups
GroupPatterns ==
    { <<"(", "?", ":", "a", ")">>,
      <<"(", "?", ":", "(", "a", ")", ")", "(", "b", ")">>,
      <<"(", "a", ")", "(", "?", ":", "b", ")", "(", "a", ")">>,
      <<"(", "(", "a", ")", "(", "?", ":", "b", ")", ")", "(", "b", ")">>,
      <<"(", "?", ":", "a", "|", "(", "b", ")", ")", "*", "(", "a", ")">>,
      <<"(", "?", "P", "<", "n", ">", "(", "a", ")", ")", "(", "b", ")">>,
      <<"(", "(", "(", "a", ")", ")", ")", "|", "(", "b", ")">>,
      <<"(", "?", ":", "(", "?", ":", "a", ")", ")", "+">>,
      <<"(", "a", ")", "(", "?", "P", "<", "n", ">", "b", ")", "(", "?", ":", ")", "(", "|", ")">> }

\* the subpatterns P of which P* and (?:P+)? are compiled
StarArguments ==
    { <<"a">>, <<".">>, <<"\\", "d">>, <<"(", "a", ")">>,
      <<"(", "?", ":", "a", "b", ")">>,
      <<"(", "?", ":", "a", "|", "b", ")">>, <<"(", "?", ":", "a", "*", ")">>,
      <<"(", "?", ":", ")">>, <<"(", "?", ":", "a", "?", "|", ")">> }

StarOf(p) == p \o <<"*">>

OptionalPlusOf(p) == <<"(", "?", ":">> \o p \o <<"+", ")", "?">>

ProgramPatterns ==
    {p \in SeqsUpTo(ProgAlphabet, MaxProgLen) \cup GroupPatterns \cup ChosenPatterns
             \cup AlternationPatterns
             \cup {StarOf(p) : p \in StarArguments}
             \cup {OptionalPlusOf(p) : p \in StarArguments} :
        compile(p).err = NoError}

ProgramInit ==
    /\ pattern_str \in ProgramPatterns
    /\ pc = "compile"
    /\ _program = <<>>
    /\ _groups = <<>>
    /\ error = NoError
    /\ context = ExecutionContext(<<>>, <<>>)
    /\ first_ind = 0
    /\ last_ind = 0
    /\ i = 0
    /\ returned = <<>>
    /\ dispatches = 0
    /\ pushed = <<>>
    /\ starts = <<>>
    /\ yielded = <<>>

ProgramNext == compile_pattern

ProgramSpec == ProgramInit /\ [][ProgramNext]_vars

\* the tokens that open a capturing group, plain or named, in pattern order
IsCapturingOpen(pattern, token) ==
    \/ token.kind = "open"
    \/ /\ token.kind = "open modified"
       /\ token.at + 2 <= Len(pattern)
       /\ pattern[token.at + 2] = "P"

CapturingOpens(pattern) ==
    SelectSeq(Tokens(pattern), LAMBDA token : IsCapturingOpen(pattern, token))

\* the name between the angle brackets of a named group, empty for a plain one
NameOf(pattern, token) ==
    IF token.kind = "open" THEN <<>>
    ELSE SubSeq(pattern, token.at + 4, token.at + token.len - 2)

\* the instructions of a program with the given op, in program order
Instructions(program, op) == SelectSeq(program, LAMBDA ins : ins.op = op)

\* C21: group 0 is the whole pattern; the capturing groups, plain and named,
\* are numbered 1, 2, 3, ... in the order of their opening parenthesis, nested
\* or not; a non-capturing group takes no id and emits no start_group or
\* end_group: the group table has one entry per capturing group plus group 0.
C21_GroupsNumberedByOpeningParen ==
    pc = "compiled" =>
        /\ Len(_groups) = Len(CapturingOpens(pattern_str)) + 1
        /\ _groups[1] = GroupDescription(<<>>, <<0, Len(pattern_str)>>)
        /\ \A k \in 1..Len(CapturingOpens(pattern_str)) :
             /\ _groups[k + 1].pattern_span[1] = CapturingOpens(pattern_str)[k].at
             /\ _groups[k + 1].name = NameOf(pattern_str, CapturingOpens(pattern_str)[k])
        /\ Len(Instructions(_program, "start group")) = Len(CapturingOpens(pattern_str))
        /\ Len(Instructions(_program, "end group")) = Len(CapturingOpens(pattern_str))
        /\ \A k \in 1..Len(Instructions(_program, "start group")) :
             Instructions(_program, "start group")[k].group_id = k

\* ((a)(?:b))(b) was compiled: group 2 is nested in group 1, the
\* non-capturing group between them and group 3 has no entry
C21_Witness ==
    /\ pc = "compiled"
    /\ pattern_str = <<"(", "(", "a", ")", "(", "?", ":", "b", ")", ")", "(", "b", ")">>
    /\ Len(_groups) = 4
    /\ _groups[2].pattern_span = <<1, 9>>
    /\ _groups[3].pattern_span = <<2, 3>>
    /\ _groups[4].pattern_span = <<11, 12>>

\* the state run() pops next, and the split it is about to execute if any
Top == Last(context._states)

TopIsSplit ==
    /\ pc = "run"
    /\ context._states # <<>>
    /\ Top.pc # Len(context._program)
    /\ fetch(context._program, Top.pc) # <<>>
    /\ fetch(context._program, Top.pc)[1].op = "split"

\* the (ind, pc) of the two continuations of the split at the top
Continuation(preferred) ==
    IF fetch(context._program, Top.pc)[1].prefer_jump = preferred
    THEN <<Top.ind, Top.pc + 1 + fetch(context._program, Top.pc)[1].offset>>
    ELSE <<Top.ind, Top.pc + 1>>

\* what a split pushes, bottom first, given the visited set it finds
SplitPushes(visited) ==
    CASE Continuation(TRUE) \notin visited /\ Continuation(FALSE) \notin visited
             /\ Continuation(TRUE) # Continuation(FALSE) ->
                 <<Continuation(FALSE), Continuation(TRUE)>>
      [] Continuation(TRUE) \notin visited -> <<Continuation(TRUE)>>
      [] Continuation(FALSE) \notin visited -> <<Continuation(FALSE)>>
      [] OTHER -> <<>>

\* C22: a split that enqueues both continuations pushes the preferred one
\* last, so that it is the state popped next; the frontier below the popped
\* state is left as it is by every step of run, so the non-preferred
\* continuation is popped only when everything pushed after it is gone; when
\* the (ind, pc) of one continuation is already visited the other one is
\* still enqueued.
C22_PreferredContinuationOnTop ==
    [][ /\ (pc = "run" /\ context._states # <<>>) =>
              /\ Len(context'._states) >= Len(context._states) - 1
              /\ SubSeq(context'._states, 1, Len(context._states) - 1)
                    = Front(context._states)
        /\ TopIsSplit =>
              Appended(Front(context._states), context'._states)
                  = SplitPushes(context._visited)
      ]_vars

\* a$|a has executed its first split with nothing visited: both continuations
\* are on the frontier, the jump to the first branch on top
C22_Witness ==
    /\ pc = "run"
    /\ pattern_str = <<"a", "$", "|", "a">>
    /\ dispatches = 1
    /\ Len(context._states) = 2
    /\ Last(context._states).pc = 2
    /\ context._states[1].pc = 1

(***************************************************************************)
(* Relocation-free programs: a subprogram is found unchanged, group ids    *)
(* aside, in the program of the pattern it is part of.                     *)
(***************************************************************************)
Compiles(pattern) == compile(pattern).err = NoError

\* a program with its group ids blanked: the ops and their offsets
Shape(program) == [k \in 1..Len(program) |-> [program[k] EXCEPT !.group_id = 0]]

\* program holds sub, instruction for instruction, from index at on
Occurs(sub, program, at) ==
    /\ at + Len(sub) <= Len(program)
    /\ Shape(SubSeq(program, at + 1, at + Len(sub))) = Shape(sub)

\* every jump and split of the program, at index k - 1 with offset o, has
\* its target k - 1 + 1 + o in 0..len(program)
TargetsWithin(program) ==
    \A k \in 1..Len(program) :
        program[k].op \in {"jump", "split"} =>
            k + program[k].offset \in 0..Len(program)

\* a | outside every group, from token k on
RECURSIVE TopLevelBar(_, _, _)
TopLevelBar(tokens, k, depth) ==
    IF k > Len(tokens) THEN FALSE
    ELSE IF Opens(tokens[k]) THEN TopLevelBar(tokens, k + 1, depth + 1)
    ELSE IF tokens[k].kind = "close" THEN TopLevelBar(tokens, k + 1, depth - 1)
    ELSE (tokens[k].kind = "bar" /\ depth = 0) \/ TopLevelBar(tokens, k + 1, depth)

\* a pattern that is a <serial> of the grammar: it compiles and has no
\* alternatives outside its groups
IsSerial(pattern) == Compiles(pattern) /\ ~TopLevelBar(Tokens(pattern), 1, 0)

\* what is between the parentheses of a pattern that is one group
Inside(pattern) == SubSeq(pattern, Tokens(pattern)[1].len + 1, Len(pattern) - 1)

IsGroup(pattern) ==
    /\ Len(pattern) >= 2
    /\ Opens(Tokens(pattern)[1])
    /\ Last(pattern) = ")"
    /\ Compiles(pattern)
    /\ Compiles(Inside(pattern))

\* a pattern that is an <atomic> of the grammar
IsAtom(pattern) ==
    /\ pattern # <<>>
    /\ Compiles(pattern)
    /\ (Len(Tokens(pattern)) = 1 \/ IsGroup(pattern))

\* the compiled pattern holds the programs of its parts with their offsets:
\* of the two halves of a sequence, of the argument of a quantifier, of the
\* inside of a group, of the two branches of an alternation
PartsUnchanged(pattern, program) ==
    /\ \A cut \in 1..(Len(pattern) - 1) :
         ( /\ IsSerial(SubSeq(pattern, 1, cut))
           /\ IsSerial(SubSeq(pattern, cut + 1, Len(pattern))) )
         => /\ Occurs(compile(SubSeq(pattern, 1, cut)).program, program, 0)
            /\ Occurs(compile(SubSeq(pattern, cut + 1, Len(pattern))).program, program,
                      Len(compile(SubSeq(pattern, 1, cut)).program))
            /\ Len(program) = Len(compile(SubSeq(pattern, 1, cut)).program)
                  + Len(compile(SubSeq(pattern, cut + 1, Len(pattern))).program)
    /\ ( /\ Len(pattern) >= 2
         /\ Last(pattern) \in {"?", "+", "*"}
         /\ IsAtom(Front(pattern)) )
       => Occurs(compile(Front(pattern)).program, program,
                 IF Last(pattern) = "+" THEN 0 ELSE 1)
    /\ IsGroup(pattern)
       => Occurs(compile(Inside(pattern)).program, program,
                 IF IsCapturingOpen(pattern, Tokens(pattern)[1]) THEN 1 ELSE 0)
    /\ \A cut \in 1..Len(pattern) :
         ( /\ pattern[cut] = "|"
           /\ IsSerial(SubSeq(pattern, 1, cut - 1))
           /\ IsSerial(SubSeq(pattern, cut + 1, Len(pattern))) )
         => /\ Occurs(compile(SubSeq(pattern, 1, cut - 1)).program, program, 2)
            /\ Occurs(compile(SubSeq(pattern, cut + 1, Len(pattern))).program, program,
                      Len(compile(SubSeq(pattern, 1, cut - 1)).program) + 3)

\* C23: in every compiled program of length L every jump and split at index
\* i with offset k has its target i + 1 + k in 0..L; sequence, quantifier,
\* group and alternation keep the programs of their parts with their
\* offsets; and every state ever enqueued has 0 <= pc <= L.
C23_TargetsWithinProgram ==
    /\ TargetsWithin(_program)
    /\ (pc = "search" /\ starts = <<>> /\ context.string = <<>> /\ last_ind = 0)
          => PartsUnchanged(pattern_str, _program)
    /\ \A k \in 1..Len(pushed) : pushed[k][2] \in 0..Len(_program)
    /\ \A state \in Frontier : state.pc \in 0..Len(context._program)

\* (a+)+b ran to its end: its backward splits were taken and a state was
\* enqueued at pc = len(program)
C23_Witness ==
    /\ pc = "done"
    /\ pattern_str = <<"(", "a", "+", ")", "+", "b">>
    /\ returned # <<>>
    /\ \E k \in 1..Len(pushed) : pushed[k][2] = Len(_program)
    /\ \E k \in 1..Len(pushed) : pushed[k][2] = 0
    /\ \E k \in 1..Len(_program) : _program[k].op = "split" /\ _program[k].offset < 0

\* the positions of the | of a pattern that are outside every group
BarPositions(pattern) ==
    LET tokens == Tokens(pattern)
        depth(k) == Cardinality({m \in 1..(k - 1) : Opens(tokens[m])})
                       - Cardinality({m \in 1..(k - 1) : tokens[m].kind = "close"})
    IN {tokens[k].at : k \in {m \in 1..Len(tokens) :
                                 tokens[m].kind = "bar" /\ depth(m) = 0}}

\* the alternatives of a pattern after position from, in pattern order
RECURSIVE Branches(_, _)
Branches(pattern, from) ==
    IF \E bar \in BarPositions(pattern) : bar > from
    THEN <<SubSeq(pattern, from + 1,
                  Min({bar \in BarPositions(pattern) : bar > from}) - 1)>>
            \o Branches(pattern, Min({bar \in BarPositions(pattern) : bar > from}))
    ELSE <<SubSeq(pattern, from + 1, Len(pattern))>>

\* the index of the first instruction of branch j of an alternation: after
\* the head, one instruction per branch, and the branches before it, each
\* with its jump
RECURSIVE StartOf(_, _)
StartOf(branches, j) ==
    IF j = 1 THEN Len(branches)
    ELSE StartOf(branches, j - 1) + Len(compile(branches[j - 1]).program) + 1

\* program is the alternation of the branches: instruction j of the head
\* leads to the first instruction of branch j, every branch is in its
\* place, and the jump after a branch that is not the last has the length of
\* all that follows it as offset and the end of the program as target
AlternationLaidOut(branches, program) ==
    LET k == Len(branches)
        len(j) == Len(compile(branches[j]).program)
        join == StartOf(branches, k) + len(k)
    IN /\ Len(program) = join
       /\ \A j \in 1..k :
            /\ program[j].op = IF j < k THEN "split" ELSE "jump"
            /\ j + program[j].offset = StartOf(branches, j)
            /\ Occurs(compile(branches[j]).program, program, StartOf(branches, j))
            /\ j < k =>
                 /\ program[StartOf(branches, j) + len(j) + 1].op = "jump"
                 /\ program[StartOf(branches, j) + len(j) + 1].offset
                       = join - StartOf(branches, j + 1)
                 /\ StartOf(branches, j) + len(j) + 1
                       + program[StartOf(branches, j) + len(j) + 1].offset = join

\* C24: in the program of A1|...|Ak the head leads to the first instruction
\* of every branch, and the jump appended to each branch but the last has
\* as offset the total length of the branches after it, their jumps
\* included, so that control arrives just past the last branch; also when
\* branches are empty.
C24_AlternationJoinsPastLastBranch ==
    (pc = "compiled" /\ Len(Branches(pattern_str, 0)) >= 2)
        => AlternationLaidOut(Branches(pattern_str, 0), _program)

\* a||b was compiled: three branches, the second one empty
C24_Witness ==
    /\ pc = "compiled"
    /\ pattern_str = <<"a", "|", "|", "b">>
    /\ Branches(pattern_str, 0) = << <<"a">>, <<>>, <<"b">> >>
    /\ Len(_program) = 7
    /\ _program[5] = ins_jump(2)
    /\ _program[6] = ins_jump(1)

\* every start position from lo to hi on an executor of its own, in
\* order, up to the first that matches
RECURSIVE FreshSearch(_, _, _, _)
FreshOr(result, program, string, lo, hi) ==
    IF result # <<>> THEN result
    ELSE FreshSearch(program, string, lo + 1, hi)

FreshSearch(program, string, lo, hi) ==
    IF lo > hi THEN <<>>
    ELSE FreshOr(run(start_at(ExecutionContext(string, program), lo)).result,
                 program, string, lo, hi)

\* C25: search, with one executor and one visited set for all the start
\* positions first_ind..last_ind, returns what running every start position
\* in order on a fresh executor returns at the first success: the same
\* span and capture tree, or None.
C25_SharedSearchEqualsFresh ==
    pc = "done" =>
        returned = FreshSearch(_program, context.string, first_ind, last_ind)

\* b*$ on "ba" matched at its third start position, which began with the
\* visited set of the two before it
C25_Witness ==
    /\ pc = "done"
    /\ pattern_str = <<"b", "*", "$">>
    /\ context.string = <<"b", "a">>
    /\ Len(starts) = 3
    /\ Cardinality(starts[3].visited) > 2
    /\ returned # <<>>
    /\ returned[1].span = <<2, 2>>

\* the program of P* is a split of offset n + 1, the n instructions of P and
\* a split of offset -(n + 1); it is the program of (?:P+)? and gives the
\* results of that program on every subject and range of start positions
StarIsOptionalPlus(p, program) ==
    /\ Len(program) = Len(compile(p).program) + 2
    /\ program[1].op = "split"
    /\ program[1].offset = Len(compile(p).program) + 1
    /\ SubSeq(program, 2, Len(program) - 1) = compile(p).program
    /\ program[Len(program)].op = "split"
    /\ program[Len(program)].offset = -(Len(compile(p).program) + 1)
    /\ program = compile(OptionalPlusOf(p)).program
    /\ \A string \in Strings :
         \A lo \in 0..Len(string) :
            search(program, string, lo, Len(string)).result
               = search(compile(OptionalPlusOf(p)).program, string, lo,
                        Len(string)).result

\* C26: for a subpattern P of compiled length n, P* compiles to the
\* instruction sequence of (?:P+)?, a split of offset n + 1, then P, then a
\* split of offset -(n + 1), so that both patterns return the same matches
\* on every subject.
C26_StarIsOptionalPlus ==
    pc = "compiled" =>
        \A p \in StarArguments :
            pattern_str = StarOf(p) => StarIsOptionalPlus(p, _program)

\* (?:a|b)* was compiled: the five instructions of the alternation between
\* the two splits
C26_Witness ==
    /\ pc = "compiled"
    /\ pattern_str = StarOf(<<"(", "?", ":", "a", "|", "b", ")">>)
    /\ Len(_program) = 7
    /\ _program[1] = split_after(6)
    /\ _program[7] = split(-6)
    /\ _program = compile(OptionalPlusOf(<<"(", "?", ":", "a", "|", "b", ")">>)).program
    /\ search(_program, <<"a", "b">>, 0, 2).result # <<>>

\* C27: in every returned match tree the span of a child lies within the
\* span of its parent and a child does not start before the end of the
\* sibling listed before it; and along every execution path the cursor ind
\* never decreases: the states an instruction enqueues have the ind of the
\* state that executed it or a later one.
C27_SpansNestAndCursorAdvances ==
    /\ [](\A r \in 1..Len(returned) :
            \A m \in Nested(returned[r]) :
               /\ m.span[1] <= m.span[2]
               /\ \A k \in 1..Len(m.sub_matches) :
                    /\ m.span[1] <= m.sub_matches[k].span[1]
                    /\ m.sub_matches[k].span[2] <= m.span[2]
               /\ \A k \in 1..(Len(m.sub_matches) - 1) :
                    m.sub_matches[k].span[2] <= m.sub_matches[k + 1].span[1])
    /\ [][(pc = "run" /\ context._states # <<>>) =>
             /\ \A k \in Len(context._states)..Len(context'._states) :
                  context'._states[k].ind >= Top.ind
             /\ \A r \in 1..Len(returned') :
                  /\ returned'[r].span[2] = Top.ind
                  /\ returned'[r].span[1] <= Top.ind
         ]_vars

\* (a|ab)(b|) on "ab": two sibling groups, the second starting where the
\* first ends, both within the span of the match
C27_Witness ==
    /\ pc = "done"
    /\ pattern_str = <<"(", "a", "|", "a", "b", ")", "(", "b", "|", ")">>
    /\ context.string = <<"a", "b">>
    /\ returned # <<>>
    /\ returned[1].span = <<0, 2>>
    /\ Len(returned[1].sub_matches) = 2
    /\ returned[1].sub_matches[1].span[2] = returned[1].sub_matches[2].span[1]
=============================================================================
